---- MODULE Spec2Model ----
(***************************************************************************)
(* A model of neural_sp's Transformer building blocks                      *)
(* (neural_sp/models/modules/transformer.py) and of the training loop of   *)
(* TestAttention.check (models/test/pytorch/attention/test_attention.py).  *)
(*                                                                         *)
(* Tensors are not modelled numerically: a value is named by the           *)
(* expression that produced it.  What is modelled is the control flow of   *)
(* the constructors and of forward (which attributes are created, which    *)
(* are read, in which order, which exception leaves the call) and the      *)
(* statement order of the training loop.  Host-framework calls (nn.Linear, *)
(* nn.LayerNorm, nn.Dropout, torch.cat, ...) are taken to succeed.         *)
(***************************************************************************)
EXTENDS Integers, Sequences, FiniteSets

VARIABLES
    objs,       \* the module instances whose constructor has returned
    last,       \* the most recent constructor or forward call and its outcome
    cached,     \* the <<block, mechanism>> pairs whose attention mechanism holds
                \* the keys and values of a forward call
    pc,         \* check(): the statement about to be executed
    cfg,        \* check(): the keyword arguments the loop reads
    step,       \* check(): the loop variable of `for step in range(max_step)`
    loss,       \* check(): loss.data[0] of the latest forward pass
    ler,        \* check(): the latest label error rate, in hundredths
    weight_noise_injection,   \* model.weight_noise_injection
    optimizer,  \* model.optimizer
    learning_rate,            \* the local variable learning_rate
    ops,        \* check(): what the current iteration has executed so far
    hist        \* check(): counters over the whole call

moduleVars == <<objs, last, cached>>
checkVars == <<pc, cfg, step, loss, ler, weight_noise_injection, optimizer,
               learning_rate, ops, hist>>
vars == <<objs, last, cached, pc, cfg, step, loss, ler, weight_noise_injection,
          optimizer, learning_rate, ops, hist>>

-----------------------------------------------------------------------------
(* Bounds and argument domains *)

MaxObjs == 1

PeTypes == {"none", "add", "concat", "learned"}
Nonlinears == {"relu", "gelu", "gelu_accurate", "glu", "swish"}
ATypes == {"scaled_dot", "average"}

-----------------------------------------------------------------------------
(* Exceptions and call records *)

NoExc == [type |-> "none", arg |-> "none"]
NotImplementedError(a) == [type |-> "NotImplementedError", arg |-> a]
AttributeError(a) == [type |-> "AttributeError", arg |-> a]

Call(f, args) == [f |-> f, args |-> args]

\* The running state of a forward call: the exception raised so far (if any)
\* and the sub-module calls made so far.
Start == [exc |-> NoExc, trace |-> <<>>]

\* self.<attr>(...) or self.<attr>.reset(): reading an attribute that the
\* constructor did not create raises AttributeError; after an exception
\* nothing more is executed.
Use(self, st, attr, call) ==
    IF st.exc # NoExc THEN st
    ELSE IF attr \notin self.modules THEN [st EXCEPT !.exc = AttributeError(attr)]
    ELSE [st EXCEPT !.trace = Append(@, call)]

Raise(st, e) == IF st.exc # NoExc THEN st ELSE [st EXCEPT !.exc = e]

Names(trace) == [i \in 1..Len(trace) |-> trace[i].f]

-----------------------------------------------------------------------------
(* PositionalEncoding *)

\* Variant: the constructor validates pe_type itself.
PositionalEncoding_init_Validating(pe_type) ==
    IF pe_type \notin {"none", "add", "concat"}
    THEN [exc |-> NotImplementedError(pe_type),
          self |-> [cls |-> "PositionalEncoding", pe_type |-> pe_type,
                    modules |-> {}]]
    ELSE [exc |-> NoExc,
          self |-> [cls |-> "PositionalEncoding",
                    pe_type |-> pe_type,
                    modules |-> IF pe_type # "none" THEN {"pe", "dropout"} ELSE {}]]

PositionalEncoding_init(pe_type) ==
    [exc |-> NoExc,
     self |-> [cls |-> "PositionalEncoding",
               pe_type |-> pe_type,
               modules |-> IF pe_type # "none" THEN {"pe", "dropout"} ELSE {}]]

\* Variant: the 'concat' branch is missing, so 'concat' falls into the else.
PositionalEncoding_forward_NoConcat(self) ==
    IF self.pe_type = "none"
    THEN [exc |-> NoExc, trace |-> <<>>, ret |-> <<"xs*sqrt(d_model)">>]
    ELSE LET st == IF self.pe_type = "add"
                   THEN Use(self, Start, "pe", Call("add", <<"xs", "pe">>))
                   ELSE Raise(Start, NotImplementedError(self.pe_type))
             out == Use(self, st, "dropout", Call("dropout", <<"xs">>))
         IN  [exc |-> out.exc, trace |-> out.trace,
              ret |-> IF out.exc = NoExc THEN <<"dropout(xs)">> ELSE <<>>]

PositionalEncoding_forward(self) ==
    IF self.pe_type = "none"
    THEN [exc |-> NoExc, trace |-> <<>>, ret |-> <<"xs*sqrt(d_model)">>]
    ELSE LET st == IF self.pe_type = "add"
                   THEN Use(self, Start, "pe", Call("add", <<"xs", "pe">>))
                   ELSE IF self.pe_type = "concat"
                   THEN Use(self, Start, "pe", Call("cat", <<"xs", "pe">>))
                   ELSE Raise(Start, NotImplementedError(self.pe_type))
             out == Use(self, st, "dropout", Call("dropout", <<"xs">>))
         IN  [exc |-> out.exc, trace |-> out.trace,
              ret |-> IF out.exc = NoExc THEN <<"dropout(xs)">> ELSE <<>>]

-----------------------------------------------------------------------------
(* PositionwiseFeedForward *)

\* Variant: an unknown nonlinearity silently falls back to relu.
PositionwiseFeedForward_init_DefaultRelu(nonlinear) ==
    LET base == [cls |-> "PositionwiseFeedForward",
                 modules |-> {"w_1", "w_2", "dropout"},
                 nonlinear |-> "unset"]
    IN  IF nonlinear = "gelu"
        THEN [exc |-> NoExc, self |-> [base EXCEPT !.nonlinear = "gelu"]]
        ELSE IF nonlinear = "gelu_accurate"
        THEN [exc |-> NoExc, self |-> [base EXCEPT !.nonlinear = "gelu_accurate"]]
        ELSE IF nonlinear = "glu"
        THEN [exc |-> NoExc, self |-> [base EXCEPT !.nonlinear = "LinearGLUBlock"]]
        ELSE [exc |-> NoExc, self |-> [base EXCEPT !.nonlinear = "torch.relu"]]

PositionwiseFeedForward_init(nonlinear) ==
    LET base == [cls |-> "PositionwiseFeedForward",
                 modules |-> {"w_1", "w_2", "dropout"},
                 nonlinear |-> "unset"]
    IN  IF nonlinear = "relu"
        THEN [exc |-> NoExc, self |-> [base EXCEPT !.nonlinear = "torch.relu"]]
        ELSE IF nonlinear = "gelu"
        THEN [exc |-> NoExc, self |-> [base EXCEPT !.nonlinear = "gelu"]]
        ELSE IF nonlinear = "gelu_accurate"
        THEN [exc |-> NoExc, self |-> [base EXCEPT !.nonlinear = "gelu_accurate"]]
        ELSE IF nonlinear = "glu"
        THEN [exc |-> NoExc, self |-> [base EXCEPT !.nonlinear = "LinearGLUBlock"]]
        ELSE [exc |-> NotImplementedError(nonlinear), self |-> base]

PositionwiseFeedForward_forward(self) ==
    LET s1 == Use(self, Start, "w_1", Call("w_1", <<"xs">>))
        s2 == IF self.nonlinear = "unset"
              THEN Raise(s1, AttributeError("nonlinear"))
              ELSE [s1 EXCEPT !.trace = Append(@, Call("nonlinear", <<self.nonlinear>>))]
        s3 == Use(self, s2, "dropout", Call("dropout", <<"xs">>))
        s4 == Use(self, s3, "w_2", Call("w_2", <<"xs">>))
    IN  [exc |-> s4.exc, trace |-> s4.trace,
         ret |-> IF s4.exc = NoExc THEN <<"w_2(xs)">> ELSE <<>>]

-----------------------------------------------------------------------------
(* MultiheadAttentionMechanism: its source is not part of the modelled     *)
(* files.  Whether its constructor accepts an attention type is an input   *)
(* of the constructor calls below; reset() and __call__ are recorded as    *)
(* calls.                                                                  *)

MultiheadAttentionMechanism_init(atype, accepted) ==
    IF accepted THEN NoExc ELSE NotImplementedError(atype)

\* The attention mechanisms of a block and the name of their reset() call.
Mechanisms == {"self_attn", "src_attn"}
ResetOf == [self_attn |-> "self_attn.reset", src_attn |-> "src_attn.reset"]

\* Whether a mechanism holds cached keys and values: reset() drops them, a call
\* leaves them behind.
MultiheadAttentionMechanism_reset(c) == FALSE
MultiheadAttentionMechanism_call(c) == TRUE

\* The cache of mechanism m after the first n calls of a forward's trace, c
\* being its cache when forward was entered.
RECURSIVE CacheAfter(_, _, _, _)
CacheAfter(c, trace, m, n) ==
    IF n = 0 THEN c
    ELSE LET p == CacheAfter(c, trace, m, n - 1)
         IN  IF trace[n].f = ResetOf[m] THEN MultiheadAttentionMechanism_reset(p)
             ELSE IF trace[n].f = m THEN MultiheadAttentionMechanism_call(p)
             ELSE p

\* self.feed_forward(xs) inside a block: the nested forward runs, and an
\* exception it raises leaves the block's forward too.
FeedForward(self, st, arg) ==
    LET s1 == Use(self, st, "feed_forward", Call("feed_forward", <<arg>>))
    IN  IF s1.exc # NoExc THEN s1
        ELSE Raise(s1, PositionwiseFeedForward_forward(self.feed_forward).exc)

-----------------------------------------------------------------------------
(* TransformerEncoderBlock *)

TransformerEncoderBlock_init(atype, ffn_nonlinear, accepted) ==
    LET base == [cls |-> "TransformerEncoderBlock", atype |-> atype,
                 modules |-> {"norm1"}, feed_forward |-> [cls |-> "unset"]]
        mha == MultiheadAttentionMechanism_init(atype, accepted)
        ffn == PositionwiseFeedForward_init(ffn_nonlinear)
    IN  IF mha # NoExc
        THEN [exc |-> mha, self |-> base]
        ELSE IF ffn.exc # NoExc
        THEN [exc |-> ffn.exc,
              self |-> [base EXCEPT
                          !.modules = {"norm1", "self_attn", "dropout1", "norm2"}]]
        ELSE [exc |-> NoExc,
              self |-> [base EXCEPT
                          !.modules = {"norm1", "self_attn", "dropout1", "norm2",
                                       "feed_forward", "dropout2"},
                          !.feed_forward = ffn.self]]

\* Variant: forward does not reset the self-attention first.
TransformerEncoderBlock_forward_NoReset(self, xx_mask) ==
    LET s2 == Use(self, Start, "norm1", Call("norm1", <<"xs">>))
        s3 == Use(self, s2, "self_attn",
                  Call("self_attn", <<"xs", "xs", "xs", xx_mask>>))
        s4 == Use(self, s3, "dropout1", Call("dropout1", <<"xs">>))
        s5 == Use(self, s4, "norm2", Call("norm2", <<"xs">>))
        s6 == FeedForward(self, s5, "xs")
        s7 == Use(self, s6, "dropout2", Call("dropout2", <<"xs">>))
    IN  [exc |-> s7.exc, trace |-> s7.trace,
         ret |-> IF s7.exc = NoExc THEN <<"xs", "self_attn.aw">> ELSE <<>>]

TransformerEncoderBlock_forward(self, xx_mask) ==
    LET s1 == Use(self, Start, "self_attn", Call("self_attn.reset", <<>>))
        s2 == Use(self, s1, "norm1", Call("norm1", <<"xs">>))
        s3 == Use(self, s2, "self_attn",
                  Call("self_attn", <<"xs", "xs", "xs", xx_mask>>))
        s4 == Use(self, s3, "dropout1", Call("dropout1", <<"xs">>))
        s5 == Use(self, s4, "norm2", Call("norm2", <<"xs">>))
        s6 == FeedForward(self, s5, "xs")
        s7 == Use(self, s6, "dropout2", Call("dropout2", <<"xs">>))
    IN  [exc |-> s7.exc, trace |-> s7.trace,
         ret |-> IF s7.exc = NoExc THEN <<"xs", "self_attn.aw">> ELSE <<>>]

-----------------------------------------------------------------------------
(* TransformerDecoderBlock *)

\* Variant: the constructor has no `atype == "average"` test.
TransformerDecoderBlock_init_NoAverageTest(atype, ffn_nonlinear, src_tgt_attention, accepted) ==
    LET base == [cls |-> "TransformerDecoderBlock", atype |-> atype,
                 src_tgt_attention |-> src_tgt_attention,
                 modules |-> {}, feed_forward |-> [cls |-> "unset"]]
        mha == MultiheadAttentionMechanism_init(atype, accepted)
        ffn == PositionwiseFeedForward_init(ffn_nonlinear)
        m1 == {"norm1", "self_attn", "dropout1"}
        m2 == IF src_tgt_attention
              THEN m1 \cup {"norm2", "src_attn", "dropout2"} ELSE m1
    IN  IF mha # NoExc
        THEN [exc |-> mha, self |-> [base EXCEPT !.modules = {"norm1"}]]
        ELSE IF ffn.exc # NoExc
        THEN [exc |-> ffn.exc,
              self |-> [base EXCEPT !.modules = m2 \cup {"norm3"}]]
        ELSE [exc |-> NoExc,
              self |-> [base EXCEPT
                          !.modules = m2 \cup {"norm3", "feed_forward", "dropout3"},
                          !.feed_forward = ffn.self]]

TransformerDecoderBlock_init(atype, ffn_nonlinear, src_tgt_attention, accepted) ==
    LET base == [cls |-> "TransformerDecoderBlock", atype |-> atype,
                 src_tgt_attention |-> src_tgt_attention,
                 modules |-> {}, feed_forward |-> [cls |-> "unset"]]
        mha == MultiheadAttentionMechanism_init(atype, accepted)
        ffn == PositionwiseFeedForward_init(ffn_nonlinear)
        m1 == {"norm1", "self_attn", "dropout1"}
        m2 == IF src_tgt_attention
              THEN m1 \cup {"norm2", "src_attn", "dropout2"} ELSE m1
    IN  IF atype = "average"
        THEN [exc |-> NotImplementedError(""), self |-> base]
        ELSE IF mha # NoExc
        THEN [exc |-> mha, self |-> [base EXCEPT !.modules = {"norm1"}]]
        ELSE IF ffn.exc # NoExc
        THEN [exc |-> ffn.exc,
              self |-> [base EXCEPT !.modules = m2 \cup {"norm3"}]]
        ELSE [exc |-> NoExc,
              self |-> [base EXCEPT
                          !.modules = m2 \cup {"norm3", "feed_forward", "dropout3"},
                          !.feed_forward = ffn.self]]

\* Variant: forward runs the source-target attention whenever xs is given,
\* instead of testing self.src_tgt_attention.
TransformerDecoderBlock_forward_TestsXs(self, yy_mask, xs, xy_mask) ==
    LET a1 == IF self.atype = "average"
              THEN Raise(Start, NotImplementedError(""))
              ELSE Use(self, Start, "self_attn", Call("self_attn.reset", <<>>))
        a2 == Use(self, a1, "norm1", Call("norm1", <<"ys">>))
        a3 == Use(self, a2, "self_attn",
                  Call("self_attn", <<"_ys", "_ys", "_ys", yy_mask>>))
        a4 == Use(self, a3, "dropout1", Call("dropout1", <<"_ys">>))
        b1 == Use(self, a4, "src_attn", Call("src_attn.reset", <<>>))
        b2 == Use(self, b1, "norm2", Call("norm2", <<"ys">>))
        b3 == Use(self, b2, "src_attn",
                  Call("src_attn", <<xs, xs, "_ys", xy_mask>>))
        b4 == Use(self, b3, "dropout2", Call("dropout2", <<"_ys">>))
        b == IF xs # "None" THEN b4 ELSE a4
        xy_aw == IF xs # "None" THEN "src_attn.aw" ELSE "None"
        c1 == Use(self, b, "norm3", Call("norm3", <<"ys">>))
        c2 == FeedForward(self, c1, "_ys")
        c3 == Use(self, c2, "dropout3", Call("dropout3", <<"_ys">>))
    IN  [exc |-> c3.exc, trace |-> c3.trace,
         ret |-> IF c3.exc = NoExc THEN <<"ys", "self_attn.aw", xy_aw>> ELSE <<>>]

TransformerDecoderBlock_forward(self, yy_mask, xs, xy_mask) ==
    LET \* self-attention
        a1 == IF self.atype = "average"
              THEN Raise(Start, NotImplementedError(""))
              ELSE Use(self, Start, "self_attn", Call("self_attn.reset", <<>>))
        a2 == Use(self, a1, "norm1", Call("norm1", <<"ys">>))
        a3 == Use(self, a2, "self_attn",
                  Call("self_attn", <<"_ys", "_ys", "_ys", yy_mask>>))
        a4 == Use(self, a3, "dropout1", Call("dropout1", <<"_ys">>))
        \* attention for encoder stacks
        b1 == Use(self, a4, "src_attn", Call("src_attn.reset", <<>>))
        b2 == Use(self, b1, "norm2", Call("norm2", <<"ys">>))
        b3 == Use(self, b2, "src_attn",
                  Call("src_attn", <<xs, xs, "_ys", xy_mask>>))
        b4 == Use(self, b3, "dropout2", Call("dropout2", <<"_ys">>))
        b == IF self.src_tgt_attention THEN b4 ELSE a4
        xy_aw == IF self.src_tgt_attention THEN "src_attn.aw" ELSE "None"
        \* position-wise feed-forward
        c1 == Use(self, b, "norm3", Call("norm3", <<"ys">>))
        c2 == FeedForward(self, c1, "_ys")
        c3 == Use(self, c2, "dropout3", Call("dropout3", <<"_ys">>))
    IN  [exc |-> c3.exc, trace |-> c3.trace,
         ret |-> IF c3.exc = NoExc THEN <<"ys", "self_attn.aw", xy_aw>> ELSE <<>>]

-----------------------------------------------------------------------------
(* Constructor and forward calls as actions *)

Tensors(name) == {"None", name}

NoCall == [op |-> "none", cls |-> "none", args |-> <<>>, exc |-> NoExc,
           self |-> [cls |-> "none"], trace |-> <<>>, ret |-> <<>>,
           cached_before |-> {}, on_cache |-> {}]

\* `cls(*args)`: the instance exists for the caller only if __init__ returned.
\* A constructor call leaves the attention caches and the training loop alone:
\* the New... actions below say so.
Construct(cls, args, r) ==
    /\ r.exc = NoExc => Cardinality(objs) < MaxObjs
    /\ objs' = IF r.exc = NoExc THEN objs \cup {r.self} ELSE objs
    /\ last' = [op |-> "init", cls |-> cls, args |-> args, exc |-> r.exc,
                self |-> r.self, trace |-> <<>>, ret |-> <<>>,
                cached_before |-> {}, on_cache |-> {}]

\* cached_before: the mechanisms of self that hold a cache when forward is
\* entered; on_cache: those that this forward calls while they hold one.
Forward(self, args, r) ==
    LET before == {m \in Mechanisms : <<self, m>> \in cached}
        after == {m \in Mechanisms :
                     CacheAfter(m \in before, r.trace, m, Len(r.trace))}
        used == {m \in Mechanisms :
                    \E i \in 1..Len(r.trace) :
                        /\ r.trace[i].f = m
                        /\ CacheAfter(m \in before, r.trace, m, i - 1)}
    IN  /\ last' = [op |-> "forward", cls |-> self.cls, args |-> args,
                    exc |-> r.exc, self |-> self, trace |-> r.trace,
                    ret |-> r.ret, cached_before |-> before, on_cache |-> used]
        /\ cached' = {c \in cached : c[1] # self} \cup {<<self, m>> : m \in after}
        /\ UNCHANGED <<objs, checkVars>>

NewPositionalEncoding ==
    /\ \E pe_type \in PeTypes :
          Construct("PositionalEncoding", <<pe_type>>,
                    PositionalEncoding_init(pe_type))
    /\ UNCHANGED <<cached, checkVars>>

NewPositionwiseFeedForward ==
    /\ \E nonlinear \in Nonlinears :
          Construct("PositionwiseFeedForward", <<nonlinear>>,
                    PositionwiseFeedForward_init(nonlinear))
    /\ UNCHANGED <<cached, checkVars>>

NewTransformerEncoderBlock ==
    /\ \E atype \in ATypes, ffn_nonlinear \in Nonlinears, accepted \in BOOLEAN :
          Construct("TransformerEncoderBlock", <<atype, ffn_nonlinear>>,
                    TransformerEncoderBlock_init(atype, ffn_nonlinear, accepted))
    /\ UNCHANGED <<cached, checkVars>>

NewTransformerDecoderBlock ==
    /\ \E atype \in ATypes, ffn_nonlinear \in Nonlinears,
          src_tgt_attention \in BOOLEAN, accepted \in BOOLEAN :
          Construct("TransformerDecoderBlock",
                    <<atype, ffn_nonlinear,
                      IF src_tgt_attention THEN "True" ELSE "False">>,
                    TransformerDecoderBlock_init(atype, ffn_nonlinear,
                                                 src_tgt_attention, accepted))
    /\ UNCHANGED <<cached, checkVars>>

CallPositionalEncoding ==
    \E self \in objs :
        /\ self.cls = "PositionalEncoding"
        /\ Forward(self, <<"xs">>, PositionalEncoding_forward(self))

CallPositionwiseFeedForward ==
    \E self \in objs :
        /\ self.cls = "PositionwiseFeedForward"
        /\ Forward(self, <<"xs">>, PositionwiseFeedForward_forward(self))

CallTransformerEncoderBlock ==
    \E self \in objs, xx_mask \in Tensors("xx_mask") :
        /\ self.cls = "TransformerEncoderBlock"
        /\ Forward(self, <<"xs", xx_mask>>,
                   TransformerEncoderBlock_forward(self, xx_mask))

CallTransformerDecoderBlock ==
    \E self \in objs, yy_mask \in Tensors("yy_mask"), xs \in Tensors("xs"),
       xy_mask \in Tensors("xy_mask") :
        /\ self.cls = "TransformerDecoderBlock"
        /\ Forward(self, <<"ys", yy_mask, xs, xy_mask>>,
                   TransformerDecoderBlock_forward(self, yy_mask, xs, xy_mask))

-----------------------------------------------------------------------------
(* TestAttention.check: the training loop, one action per statement *)

max_step == 1000
MaxLr == 1

\* (label_type, ctc_loss_weight in tenths) of the check() calls made by test()
Configs == {[label_type |-> "char", ctc_loss_weight |-> 0],
            [label_type |-> "char", ctc_loss_weight |-> 2],
            [label_type |-> "word", ctc_loss_weight |-> 0]}
DefaultConfig == [label_type |-> "char", ctc_loss_weight |-> 0]

LossVals == {49, 50}            \* loss.data[0]
LerVals == {5, 10, 50}          \* ler in hundredths: 0.05, 0.10, 0.50
LearningRates == 0..MaxLr       \* the distinct values decay_lr may return
Optimizers == {"adam", "adam2"} \* the optimizer objects decay_lr may return

Op(name, arg) == [op |-> name, arg |-> arg]

NoDecay == [epoch |-> "none", value |-> "none", ret |-> <<>>]

\* updates, decodes, decays, tests: how often optimizer.step, model.decode,
\* decay_lr and the test `ler < 0.1` have run; since_decode: the updates since
\* the latest decode; low_ler: the decodes that scored ler < 0.1; exit: how the
\* loop was left; raised: the exception that left check(); last_decay: the
\* latest decay_lr call.
InitHist == [updates |-> 0, decodes |-> 0, decays |-> 0, since_decode |-> 0,
             tests |-> 0, low_ler |-> 0, exit |-> "none", raised |-> "none",
             last_decay |-> NoDecay]

\* One statement of the loop body: it runs at `at`, records `op` and goes to `to`.
Stmt(at, op, to) ==
    /\ pc = at
    /\ pc' = to
    /\ ops' = Append(ops, op)

\* Variant: check() fails when the loop runs out without having converged.
ForNext_AssertConverged ==
    /\ pc = "for"
    /\ IF step + 1 < max_step
       THEN /\ step' = step + 1
            /\ pc' = "zero_grad"
            /\ ops' = <<>>
            /\ hist' = hist
       ELSE /\ pc' = "returned"
            /\ hist' = [hist EXCEPT !.exit = "exhausted",
                                    !.raised = "AssertionError"]
            /\ UNCHANGED <<step, ops>>
    /\ UNCHANGED <<cfg, loss, ler, weight_noise_injection, optimizer,
                   learning_rate, moduleVars>>

\* line 233: for step in range(max_step)
ForNext ==
    /\ pc = "for"
    /\ IF step + 1 < max_step
       THEN /\ step' = step + 1
            /\ pc' = "zero_grad"
            /\ ops' = <<>>
            /\ hist' = hist
       ELSE /\ pc' = "returned"
            /\ hist' = [hist EXCEPT !.exit = "exhausted"]
            /\ UNCHANGED <<step, ops>>
    /\ UNCHANGED <<cfg, loss, ler, weight_noise_injection, optimizer,
                   learning_rate, moduleVars>>

\* line 236: model.optimizer.zero_grad()
ZeroGrad ==
    /\ Stmt("zero_grad", Op("zero_grad", optimizer), "forward")
    /\ UNCHANGED <<cfg, step, loss, ler, weight_noise_injection, optimizer,
                   learning_rate, hist, moduleVars>>

\* line 237: loss = model(xs, ys, x_lens, y_lens)
ForwardLoss ==
    /\ \E l \in LossVals : loss' = l
    /\ Stmt("forward", Op("forward", "loss"), "backward")
    /\ UNCHANGED <<cfg, step, ler, weight_noise_injection, optimizer,
                   learning_rate, hist, moduleVars>>

\* Variant: the gradient clipping is left out of the step.
Backward_NoClip ==
    /\ Stmt("backward", Op("backward", "loss"), "optimizer_step")
    /\ UNCHANGED <<cfg, step, loss, ler, weight_noise_injection, optimizer,
                   learning_rate, hist, moduleVars>>

\* line 238: loss.backward()
Backward ==
    /\ Stmt("backward", Op("backward", "loss"), "clip_grad_norm")
    /\ UNCHANGED <<cfg, step, loss, ler, weight_noise_injection, optimizer,
                   learning_rate, hist, moduleVars>>

\* line 239: nn.utils.clip_grad_norm(model.parameters(), 5)
ClipGradNorm ==
    /\ Stmt("clip_grad_norm", Op("clip_grad_norm", "5"), "optimizer_step")
    /\ UNCHANGED <<cfg, step, loss, ler, weight_noise_injection, optimizer,
                   learning_rate, hist, moduleVars>>

\* line 240: model.optimizer.step()
OptimizerStep ==
    /\ Stmt("optimizer_step", Op("optimizer.step", optimizer), "noise")
    /\ hist' = [hist EXCEPT !.updates = @ + 1, !.since_decode = @ + 1]
    /\ UNCHANGED <<cfg, step, loss, ler, weight_noise_injection, optimizer,
                   learning_rate, moduleVars>>

\* Variant: the flag is assigned the outcome of the comparison.
NoiseInjection_AssignsTest ==
    /\ pc = "noise"
    /\ pc' = "decode_test"
    /\ weight_noise_injection' = (loss < 50)
    /\ UNCHANGED <<cfg, step, loss, ler, optimizer, learning_rate, ops, hist,
                   moduleVars>>

\* lines 243-244: if loss.data[0] < 50: model.weight_noise_injection = True
NoiseInjection ==
    /\ pc = "noise"
    /\ pc' = "decode_test"
    /\ weight_noise_injection' = IF loss < 50 THEN TRUE ELSE weight_noise_injection
    /\ UNCHANGED <<cfg, step, loss, ler, optimizer, learning_rate, ops, hist,
                   moduleVars>>

\* Variant: the period is tested on the 0-based step.
DecodeTest_ZeroBased ==
    /\ pc = "decode_test"
    /\ pc' = IF step % 10 = 0 THEN "decode" ELSE "for"
    /\ UNCHANGED <<cfg, step, loss, ler, weight_noise_injection, optimizer,
                   learning_rate, ops, hist, moduleVars>>

\* line 246: if (step + 1) % 10 == 0
DecodeTest ==
    /\ pc = "decode_test"
    /\ pc' = IF (step + 1) % 10 = 0 THEN "decode" ELSE "for"
    /\ UNCHANGED <<cfg, step, loss, ler, weight_noise_injection, optimizer,
                   learning_rate, ops, hist, moduleVars>>

\* lines 248-252: best_hyps, perm_idx = model.decode(xs, x_lens, ...)
Decode ==
    /\ Stmt("decode", Op("decode", "beam_width=2"), "score")
    /\ hist' = [hist EXCEPT !.decodes = @ + 1, !.since_decode = 0]
    /\ UNCHANGED <<cfg, step, loss, ler, weight_noise_injection, optimizer,
                   learning_rate, moduleVars>>

\* lines 255-275: ler = compute_cer(...) or compute_wer(...), then the prints
Score ==
    /\ \E e \in LerVals :
        /\ ler' = e
        /\ hist' = [hist EXCEPT !.low_ler = IF e < 10 THEN @ + 1 ELSE @]
    /\ IF cfg.label_type = "char"
       THEN Stmt("score", Op("compute_cer", "normalize"), "decode_ctc")
       ELSE Stmt("score", Op("compute_wer", "normalize"), "decode_ctc")
    /\ UNCHANGED <<cfg, step, loss, weight_noise_injection, optimizer,
                   learning_rate, moduleVars>>

\* lines 278-282: if model.ctc_loss_weight >= 0.1: model.decode_ctc(...)
DecodeCtc ==
    /\ pc = "decode_ctc"
    /\ pc' = "converged_test"
    /\ ops' = IF cfg.ctc_loss_weight >= 1
              THEN Append(ops, Op("decode_ctc", "beam_width=1")) ELSE ops
    /\ UNCHANGED <<cfg, step, loss, ler, weight_noise_injection, optimizer,
                   learning_rate, hist, moduleVars>>

\* Variant: the convergence is reported but the loop is not left.
ConvergedTest_NoBreak ==
    /\ pc = "converged_test"
    /\ pc' = "decay_lr"
    /\ hist' = [hist EXCEPT !.tests = @ + 1]
    /\ ops' = Append(ops, Op("ler < 0.1", "test"))
    /\ UNCHANGED <<cfg, step, loss, ler, weight_noise_injection, optimizer,
                   learning_rate, moduleVars>>

\* lines 284-286: if ler < 0.1: break
ConvergedTest ==
    /\ pc = "converged_test"
    /\ IF ler < 10
       THEN /\ pc' = "returned"
            /\ hist' = [hist EXCEPT !.tests = @ + 1, !.exit = "break"]
       ELSE /\ pc' = "decay_lr"
            /\ hist' = [hist EXCEPT !.tests = @ + 1]
    /\ ops' = Append(ops, Op("ler < 0.1", "test"))
    /\ UNCHANGED <<cfg, step, loss, ler, weight_noise_injection, optimizer,
                   learning_rate, moduleVars>>

\* Variant: the 1-based step is passed as epoch, and the returned learning
\* rate is dropped.
DecayLr_OneBasedEpoch ==
    /\ \E new_optimizer \in Optimizers, new_lr \in LearningRates :
        /\ optimizer' = new_optimizer
        /\ learning_rate' = learning_rate
        /\ hist' = [hist EXCEPT
                      !.decays = @ + 1,
                      !.last_decay = [epoch |-> step + 1, value |-> ler,
                                      ret |-> <<new_optimizer, new_lr>>]]
    /\ Stmt("decay_lr", Op("decay_lr", "lr_controller"), "for")
    /\ UNCHANGED <<cfg, step, loss, ler, weight_noise_injection, moduleVars>>

\* lines 289-293: model.optimizer, learning_rate = lr_controller.decay_lr(
\*     optimizer=model.optimizer, learning_rate=learning_rate, epoch=step, value=ler)
\* The controller's source is not among the modelled files: what it returns is
\* an input.
DecayLr ==
    /\ \E new_optimizer \in Optimizers, new_lr \in LearningRates :
        /\ optimizer' = new_optimizer
        /\ learning_rate' = new_lr
        /\ hist' = [hist EXCEPT
                      !.decays = @ + 1,
                      !.last_decay = [epoch |-> step, value |-> ler,
                                      ret |-> <<new_optimizer, new_lr>>]]
    /\ Stmt("decay_lr", Op("decay_lr", "lr_controller"), "for")
    /\ UNCHANGED <<cfg, step, loss, ler, weight_noise_injection, moduleVars>>

-----------------------------------------------------------------------------
(* Specifications *)

InitModules ==
    /\ objs = {}
    /\ cached = {}
    /\ last = NoCall

InitCheck ==
    /\ pc = "for"
    /\ step = -1
    /\ loss = 50
    /\ ler = 50
    /\ weight_noise_injection = FALSE
    /\ optimizer = "adam"
    /\ learning_rate = 0
    /\ ops = <<>>
    /\ hist = InitHist

Init ==
    /\ InitModules
    /\ InitCheck
    /\ cfg = DefaultConfig

Next ==
    \/ NewPositionalEncoding
    \/ NewPositionwiseFeedForward
    \/ NewTransformerEncoderBlock
    \/ NewTransformerDecoderBlock
    \/ CallPositionalEncoding
    \/ CallPositionwiseFeedForward
    \/ CallTransformerEncoderBlock
    \/ CallTransformerDecoderBlock

Spec == Init /\ [][Next]_vars

InitRun ==
    /\ InitModules
    /\ InitCheck
    /\ cfg \in Configs

NextCheck ==
    \/ ForNext
    \/ ZeroGrad
    \/ ForwardLoss
    \/ Backward
    \/ ClipGradNorm
    \/ OptimizerStep
    \/ NoiseInjection
    \/ DecodeTest
    \/ Decode
    \/ Score
    \/ DecodeCtc
    \/ ConvergedTest
    \/ DecayLr

\* check() is sequential code: the statement at pc is eventually executed.
SpecCheck == InitRun /\ [][NextCheck]_vars /\ WF_vars(NextCheck)

-----------------------------------------------------------------------------
(* Properties of the Transformer modules, checked under Spec *)

KnownNonlinears == {"relu", "gelu", "gelu_accurate", "glu"}
KnownPeTypes == {"none", "add", "concat"}

Constructed(cls) == last.op = "init" /\ last.cls = cls
Forwarded(cls) == last.op = "forward" /\ last.cls = cls
Calls(trace) == {trace[i].f : i \in 1..Len(trace)}

\* C1: constructing a TransformerDecoderBlock with atype "average" raises
\* NotImplementedError with no sub-module created yet, whatever the other
\* arguments are; no constructed decoder block has atype "average", and no
\* forward call of a decoder block leaves through the "average" branch.
C1_AverageDecoderRejected ==
    /\ (Constructed("TransformerDecoderBlock") /\ last.args[1] = "average")
          => /\ last.exc = NotImplementedError("")
             /\ last.self.modules = {}
             /\ last.self \notin objs
    /\ \A o \in objs : o.cls = "TransformerDecoderBlock" => o.atype # "average"
    /\ Forwarded("TransformerDecoderBlock")
          => /\ last.self.atype # "average"
             /\ last.exc.type # "NotImplementedError"

C1_Witness ==
    /\ Constructed("TransformerDecoderBlock")
    /\ last.args = <<"average", "relu", "False">>
    /\ last.exc.type = "NotImplementedError"

\* C2: PositionwiseFeedForward's constructor raises NotImplementedError exactly
\* when nonlinear is none of relu, gelu, gelu_accurate, glu, and otherwise
\* completes with a nonlinearity selected; constructing an encoder or decoder
\* block with an unknown ffn_nonlinear raises NotImplementedError.
C2_UnknownNonlinearRejected ==
    /\ Constructed("PositionwiseFeedForward")
          => /\ (last.exc.type = "NotImplementedError")
                    <=> (last.args[1] \notin KnownNonlinears)
             /\ last.args[1] \notin KnownNonlinears
                    => last.exc = NotImplementedError(last.args[1])
             /\ last.args[1] \in KnownNonlinears
                    => /\ last.exc = NoExc
                       /\ last.self.nonlinear # "unset"
                       /\ last.self \in objs
    /\ (\/ Constructed("TransformerEncoderBlock")
        \/ Constructed("TransformerDecoderBlock"))
          => (last.args[2] \notin KnownNonlinears
                 => /\ last.exc.type = "NotImplementedError"
                    /\ last.self \notin objs)
    /\ \A o \in objs :
          /\ o.cls = "PositionwiseFeedForward" => o.nonlinear # "unset"
          /\ o.cls \in {"TransformerEncoderBlock", "TransformerDecoderBlock"}
                => o.feed_forward.cls = "PositionwiseFeedForward"

C2_Witness ==
    /\ Constructed("TransformerEncoderBlock")
    /\ last.args[2] = "swish"
    /\ last.exc = NotImplementedError("swish")

\* C3: forward of a PositionalEncoding whose pe_type is none of 'none', 'add',
\* 'concat' raises NotImplementedError carrying the pe_type and returns
\* nothing; for the three known types forward never raises it.
C3_ForwardRejectsUnknownPeType ==
    Forwarded("PositionalEncoding")
       => IF last.self.pe_type \notin KnownPeTypes
          THEN /\ last.exc = NotImplementedError(last.self.pe_type)
               /\ last.ret = <<>>
          ELSE /\ last.exc.type # "NotImplementedError"
               /\ last.ret # <<>>

C3_Witness ==
    /\ Forwarded("PositionalEncoding")
    /\ last.self.pe_type = "learned"
    /\ last.exc = NotImplementedError("learned")

\* C4, as stated: no constructor call with an unsupported configuration value
\* completes, so no forward call is where NotImplementedError first surfaces.
C4_AllRejectedAtConstruction ==
    /\ \A o \in objs :
          /\ o.cls = "PositionalEncoding" => o.pe_type \in KnownPeTypes
          /\ o.cls = "PositionwiseFeedForward" => o.nonlinear # "unset"
          /\ o.cls = "TransformerDecoderBlock" => o.atype # "average"
    /\ last.op = "forward" => last.exc.type # "NotImplementedError"

\* C4, amended: an unknown nonlinearity (PositionwiseFeedForward and both
\* blocks) and average self-attention (TransformerDecoderBlock) are rejected by
\* the constructor; PositionalEncoding's constructor completes for every
\* pe_type, and an unknown pe_type is rejected only by forward, which is the
\* only forward that raises NotImplementedError.
C4_RejectedAtConstructionExceptPeType ==
    /\ Constructed("PositionalEncoding")
          => /\ last.exc = NoExc
             /\ last.self \in objs
             /\ last.self.pe_type = last.args[1]
    /\ Constructed("PositionwiseFeedForward")
          => (last.args[1] \notin KnownNonlinears => last.self \notin objs)
    /\ (\/ Constructed("TransformerEncoderBlock")
        \/ Constructed("TransformerDecoderBlock"))
          => (last.args[2] \notin KnownNonlinears => last.self \notin objs)
    /\ Constructed("TransformerDecoderBlock")
          => (last.args[1] = "average" => last.self \notin objs)
    /\ last.op = "forward"
          => ((last.exc.type = "NotImplementedError")
                 <=> (/\ last.cls = "PositionalEncoding"
                      /\ last.self.pe_type \notin KnownPeTypes))

C4_Witness ==
    /\ Constructed("PositionalEncoding")
    /\ last.args = <<"learned">>
    /\ last.exc = NoExc
    /\ \E o \in objs : o.cls = "PositionalEncoding" /\ o.pe_type = "learned"

\* C10: a decoder block built with src_tgt_attention=False returns xy_aw = None
\* from every forward call and never reads norm2, src_attn or dropout2 (which
\* it does not have), whatever xs and xy_mask are; a block built with
\* src_tgt_attention=True runs self-attention, source-target attention and
\* feed-forward in that order and returns src_attn's weights as xy_aw.
SrcAttnCalls == {"src_attn.reset", "norm2", "src_attn", "dropout2"}

C10_SourceTargetAttentionOptional ==
    Forwarded("TransformerDecoderBlock")
       => IF ~last.self.src_tgt_attention
          THEN /\ last.exc = NoExc
               /\ last.ret[3] = "None"
               /\ Calls(last.trace) \cap SrcAttnCalls = {}
               /\ last.self.modules \cap {"norm2", "src_attn", "dropout2"} = {}
          ELSE /\ last.exc = NoExc
               /\ last.ret[3] = "src_attn.aw"
               /\ Names(last.trace) =
                     <<"self_attn.reset", "norm1", "self_attn", "dropout1",
                       "src_attn.reset", "norm2", "src_attn", "dropout2",
                       "norm3", "feed_forward", "dropout3">>
               /\ last.trace[7].args = <<last.args[3], last.args[3], "_ys", last.args[4]>>

C10_Witness ==
    /\ Forwarded("TransformerDecoderBlock")
    /\ ~last.self.src_tgt_attention
    /\ last.args[3] = "xs"
    /\ last.args[4] = "xy_mask"
    /\ last.ret = <<"ys", "self_attn.aw", "None">>

-----------------------------------------------------------------------------
(* Properties of the training loop of check(), checked under SpecCheck *)

Has(name) == \E i \in 1..Len(ops) : ops[i].op = name
Count(name) == Cardinality({i \in 1..Len(ops) : ops[i].op = name})
Pos(name) == CHOOSE i \in 1..Len(ops) : ops[i].op = name
Prefix(a, b) == Len(a) <= Len(b) /\ \A i \in 1..Len(a) : a[i] = b[i]
OpNames == [i \in 1..Len(ops) |-> ops[i].op]

DecodeStep == (step + 1) % 10 = 0
\* the decode steps among the iterations 0 .. step - 1
DecodeStepsBefore == IF step < 0 THEN 0 ELSE step \div 10
InDecodePart == pc \in {"decode", "score", "decode_ctc", "converged_test", "decay_lr"}

\* C5, as stated: the loop stops before step 1000 exactly when some decode
\* step computed ler < 0.1.
C5_StopsEarlyIffConverged ==
    pc = "returned" => ((hist.updates < max_step) <=> (hist.low_ler > 0))

\* C5, amended: the loop terminates after at most max_step = 1000 parameter
\* updates; it is left by break exactly when a decode step computed ler < 0.1,
\* and from that decode on there is no further update, decode or decay_lr.
\* It stops with fewer than 1000 updates exactly when that decode step is
\* before the 1000th step: ler < 0.1 at step 1000 is computed after all 1000
\* updates, and the break then only skips the last decay_lr.
C5_TerminatesAndBreaksOnConvergence ==
    /\ <>(pc = "returned")
    /\ [](/\ hist.updates <= max_step
          /\ hist.low_ler <= 1
          /\ pc = "returned"
                => /\ (hist.exit = "break") <=> (hist.low_ler > 0)
                   /\ (hist.exit = "exhausted") <=> (hist.low_ler = 0)
                   /\ hist.updates = step + 1
                   /\ (hist.updates < max_step)
                         <=> (hist.low_ler > 0 /\ step + 1 < max_step))
    /\ [][hist.low_ler > 0
             => /\ hist'.updates = hist.updates
                /\ hist'.decodes = hist.decodes
                /\ hist'.decays = hist.decays
                /\ learning_rate' = learning_rate
                /\ optimizer' = optimizer]_vars
    /\ [][pc = "returned" => UNCHANGED vars]_vars

C5_Witness ==
    /\ pc = "returned"
    /\ hist.exit = "break"
    /\ hist.low_ler = 1
    /\ hist.updates = 30
    /\ hist.decays = 2

\* C6: decoding and scoring happen exactly at the steps with (step + 1) a
\* multiple of 10, after that step's optimizer update; exactly 10 updates lie
\* between two consecutive decodes; `ler < 0.1` is tested only at decode steps.
C6_DecodeEveryTenthStep ==
    /\ (Has("decode") \/ InDecodePart)
          => /\ DecodeStep
             /\ Count("optimizer.step") = 1
             /\ Has("decode") => Pos("optimizer.step") < Pos("decode")
    /\ (Has("compute_cer") \/ Has("compute_wer") \/ Has("ler < 0.1"))
          => /\ Has("decode")
             /\ Count("decode") = 1
    /\ (pc \in {"for", "returned"} /\ step >= 0)
          => (Has("decode") <=> DecodeStep)
    /\ (pc = "for" /\ step >= 0 /\ DecodeStep)
          => Has("compute_cer") \/ Has("compute_wer")
    /\ hist.decodes = DecodeStepsBefore + (IF Has("decode") THEN 1 ELSE 0)
    /\ pc = "decode" => hist.since_decode = 10
    /\ hist.since_decode <= 10
    /\ hist.since_decode = hist.updates - 10 * hist.decodes
    /\ hist.tests = DecodeStepsBefore + (IF Has("ler < 0.1") THEN 1 ELSE 0)
    /\ hist.tests <= hist.decodes

C6_Witness ==
    /\ pc = "decode"
    /\ step = 19
    /\ hist.decodes = 1
    /\ hist.since_decode = 10
    /\ hist.updates = 20

\* C7, as stated: a check() run whose ler never falls below 0.1 within the
\* 1000 steps is reported as a test failure.
C7_NonConvergenceFailsTest ==
    (pc = "returned" /\ hist.low_ler = 0) => hist.raised # "none"

\* C7, amended: check() asserts nothing about ler.  A run whose ler never
\* falls below 0.1 performs all 1000 steps (100 decodes, each followed by
\* decay_lr) and then returns normally, like a converged run; no exception
\* leaves check(), so test() does not fail on it.
C7_NonConvergenceReturnsNormally ==
    /\ pc = "returned" => hist.raised = "none"
    /\ (pc = "returned" /\ hist.low_ler = 0)
          => /\ hist.exit = "exhausted"
             /\ hist.updates = max_step
             /\ hist.decodes = max_step \div 10
             /\ hist.decays = hist.decodes
             /\ ler >= 10

C7_Witness ==
    /\ pc = "returned"
    /\ hist.low_ler = 0
    /\ hist.exit = "exhausted"
    /\ hist.raised = "none"
    /\ ler = 50

\* C8: every training step runs zero_grad, the forward loss computation,
\* backward, clip_grad_norm with max norm 5 and optimizer.step in this order,
\* with exactly one optimizer update per step.
UpdateOps == <<"zero_grad", "forward", "backward", "clip_grad_norm",
               "optimizer.step">>

C8_UpdateOrder ==
    /\ IF Len(ops) <= 5 THEN Prefix(OpNames, UpdateOps)
                        ELSE Prefix(UpdateOps, OpNames)
    /\ \A n \in {"zero_grad", "forward", "backward", "clip_grad_norm",
                 "optimizer.step"} : Count(n) <= 1
    /\ Has("clip_grad_norm") => ops[Pos("clip_grad_norm")].arg = "5"
    /\ Has("optimizer.step")
          => ops[Pos("optimizer.step")].arg = ops[Pos("zero_grad")].arg
    /\ pc = "zero_grad" => ops = <<>>
    /\ pc = "backward" => OpNames = <<"zero_grad", "forward">>
    /\ pc = "optimizer_step"
          => OpNames = <<"zero_grad", "forward", "backward", "clip_grad_norm">>
    /\ (pc \in {"noise", "decode_test", "for", "returned"} /\ step >= 0)
          => Count("optimizer.step") = 1
    /\ hist.updates = (IF step < 0 THEN 0 ELSE step) + Count("optimizer.step")

C8_Witness ==
    /\ pc = "noise"
    /\ step = 3
    /\ OpNames = UpdateOps
    /\ hist.updates = 4

\* C9: decay_lr is called exactly once at every decode step that did not
\* converge (ler >= 0.1), and never at another step or after convergence; it
\* gets the 0-based step (9, 19, 29, ...) as epoch and the ler just computed as
\* value, and model.optimizer and learning_rate hold its return values when
\* the next step starts.
C9_DecayLrAtUnconvergedDecode ==
    /\ Count("decay_lr") <= 1
    /\ Has("decay_lr")
          => /\ DecodeStep
             /\ Has("decode") /\ Has("ler < 0.1")
             /\ Pos("ler < 0.1") < Pos("decay_lr")
             /\ ler >= 10
             /\ hist.low_ler = 0
             /\ hist.last_decay.epoch = step
             /\ hist.last_decay.value = ler
             /\ pc \in {"for", "returned"}
    /\ (pc = "for" /\ step >= 0 /\ DecodeStep) => Has("decay_lr")
    /\ hist.decays = DecodeStepsBefore + (IF Has("decay_lr") THEN 1 ELSE 0)
    /\ hist.decays > 0
          => /\ hist.last_decay.epoch = 10 * hist.decays - 1
             /\ hist.last_decay.value >= 10
             /\ optimizer = hist.last_decay.ret[1]
             /\ learning_rate = hist.last_decay.ret[2]
    /\ hist.decays = 0 => (optimizer = "adam" /\ learning_rate = 0)
    /\ pc = "returned" => hist.decays = hist.decodes - hist.low_ler

C9_Witness ==
    /\ pc = "zero_grad"
    /\ step = 20
    /\ hist.decays = 2
    /\ hist.last_decay = [epoch |-> 19, value |-> 10, ret |-> <<"adam2", 1>>]
    /\ optimizer = "adam2"
    /\ learning_rate = 1

C12_WeightNoiseLatch ==
    /\ [][weight_noise_injection => weight_noise_injection']_vars
    /\ [][(pc = "noise" /\ loss < 50) => weight_noise_injection']_vars
    /\ [][(~weight_noise_injection /\ weight_noise_injection')
             => (pc = "noise" /\ loss < 50)]_vars
    /\ [](weight_noise_injection => hist.updates > 0)

C12_Witness ==
    /\ weight_noise_injection
    /\ pc = "decode_test"
    /\ loss = 50
    /\ step = 2

====
